---- MODULE Spec2Model ----
(***************************************************************************)
(* FileManager (src/agent_core/env_components/file_manager.py): file       *)
(* operations on a remote filesystem that is reachable only through a      *)
(* command executor.  Every text (a file's content, a command's output, a  *)
(* result message, a path) is a sequence of tokens; a token is one         *)
(* character ("x", "\n", "'") or one fixed phrase that the code or a       *)
(* shell tool writes whole ("No such file or directory").                  *)
(***************************************************************************)
EXTENDS Integers, Sequences, FiniteSets, TLC

(* ------------------------------ bounds -------------------------------- *)

\* Longest file content (in tokens) an initial file or a written content has.
MaxLen == 3
\* Largest offset and limit a read is called with.
MaxOffset == 3
MaxLimit == 2
\* Longest old_string / new_string (in tokens) of an edit.
MaxStr == 2
\* Longest list of edits a multi_edit_file call is given.
MaxEdits == 2
\* Longest list of paths a get_metadata call is given.
MaxPaths == 2
\* Public calls made in one behaviour.
MaxCalls == 1
\* Most lines of a file that is read page by page.
MaxLines == 3
\* Longest content (in tokens) of a file that a single edit is made on.
MaxEditLen == 4
\* Longest new_string of a single edit.
MaxNew == 1
\* Longest list of paths of the get_metadata calls of SpecMeta.
MaxMetaPaths == 11
\* Longest old_string of the edits of SpecEscape.
MaxEscLen == 1
\* Longest path (in characters) of the calls of SpecQuote.
MaxPathLen == 5

(* ------------------------------- text --------------------------------- *)

NL == "\n"
NSF == "No such file or directory"
CANNOT_OPEN == "cannot open"
NO_MATCHES == "No matches found"
NOT_FOUND == "not_found"
\* The character U+0060, which a TLA+ string cannot hold.
BACKTICK == "<backtick>"

\* Python's `needle in text` for a needle that is one token of the text.
Contains(text, tok) == \E i \in 1..Len(text) : text[i] = tok

\* All sequences over S of length at most n.
SeqsUpTo(S, n) == UNION {[1..k -> S] : k \in 0..n}

RECURSIVE Concat(_)
Concat(ss) == IF ss = <<>> THEN <<>> ELSE Head(ss) \o Concat(Tail(ss))

\* The lines of a text: maximal runs without "\n", an unterminated last
\* line included (what nl, head, tail and sed read as lines).
RECURSIVE SplitLines(_, _)
SplitLines(text, cur) ==
    IF text = <<>> THEN (IF cur = <<>> THEN <<>> ELSE <<cur>>)
    ELSE IF Head(text) = NL THEN <<cur>> \o SplitLines(Tail(text), <<>>)
    ELSE SplitLines(Tail(text), Append(cur, Head(text)))

Lines(text) == SplitLines(text, <<>>)

\* True when the text's last line has its terminating "\n" (or it is empty).
Terminated(text) == text = <<>> \/ text[Len(text)] = NL

DigitChar == <<"0", "1", "2", "3", "4", "5", "6", "7", "8", "9">>

RECURSIVE Digits(_)
Digits(n) == IF n < 10 THEN <<DigitChar[n + 1]>>
             ELSE Digits(n \div 10) \o <<DigitChar[(n % 10) + 1]>>

RECURSIVE Spaces(_)
Spaces(n) == IF n <= 0 THEN <<>> ELSE <<" ">> \o Spaces(n - 1)

\* nl's "%6d\t" line prefix (-w 6, -n rn, -s TAB: nl's defaults).
NlPrefix(n) == Spaces(6 - Len(Digits(n))) \o Digits(n) \o <<"\t">>

\* nl -ba -v v: every line, blank ones too, numbered from v.
RECURSIVE Nl(_, _)
Nl(lines, v) ==
    IF lines = <<>> THEN <<>>
    ELSE NlPrefix(v) \o Head(lines) \o <<NL>> \o Nl(Tail(lines), v + 1)

\* head -n k (k >= 0) and tail -n +k on a sequence of lines.
HeadLines(lines, k) == SubSeq(lines, 1, IF k < Len(lines) THEN k ELSE Len(lines))
TailLines(lines, k) == SubSeq(lines, IF k < 1 THEN 1 ELSE k, Len(lines))

(* ----------------------------- base64 --------------------------------- *)

\* The UTF-8 bytes of each token of a content.
Utf8Of(tok) ==
    CASE tok = "x" -> <<120>>
      [] tok = "." -> <<46>>
      [] tok = NL -> <<10>>
      [] tok = "'" -> <<39>>
      [] tok = "\"" -> <<34>>
      [] tok = BACKTICK -> <<96>>
      [] tok = "$" -> <<36>>
      [] tok = "\\" -> <<92>>
      [] tok = NSF -> <<78, 111, 32, 115, 117, 99, 104, 32, 102, 105, 108, 101, 32,
                        111, 114, 32, 100, 105, 114, 101, 99, 116, 111, 114, 121>>
      [] tok = CANNOT_OPEN -> <<99, 97, 110, 110, 111, 116, 32, 111, 112, 101, 110>>
      [] OTHER -> <<63>>

ContentTokens == {"x", ".", NL, "'", "\"", BACKTICK, "$", "\\", NSF, CANNOT_OPEN}

\* content.encode('utf-8')
RECURSIVE Utf8(_)
Utf8(text) == IF text = <<>> THEN <<>> ELSE Utf8Of(Head(text)) \o Utf8(Tail(text))

IsPrefix(p, s) == Len(p) <= Len(s) /\ SubSeq(s, 1, Len(p)) = p

\* The text a byte sequence is: its bytes read back as tokens ("?" for a
\* byte that starts no token).
RECURSIVE FromUtf8(_)
FromUtf8(bytes) ==
    IF bytes = <<>> THEN <<>>
    ELSE LET ts == {t \in ContentTokens : IsPrefix(Utf8Of(t), bytes)}
         IN  IF ts = {} THEN <<"?">> \o FromUtf8(Tail(bytes))
             ELSE LET t == CHOOSE t \in ts : TRUE
                  IN  <<t>> \o FromUtf8(SubSeq(bytes, Len(Utf8Of(t)) + 1, Len(bytes)))

\* The padding character "=" as a 65th digit.
B64Pad == 64

\* base64.b64encode: three bytes make four 6-bit digits; a last group of
\* one or two bytes is padded with "=".
RECURSIVE B64Encode(_)
B64Encode(b) ==
    IF b = <<>> THEN <<>>
    ELSE IF Len(b) = 1 THEN
        <<b[1] \div 4, (b[1] % 4) * 16, B64Pad, B64Pad>>
    ELSE IF Len(b) = 2 THEN
        <<b[1] \div 4, (b[1] % 4) * 16 + b[2] \div 16, (b[2] % 16) * 4, B64Pad>>
    ELSE
        <<b[1] \div 4, (b[1] % 4) * 16 + b[2] \div 16,
          (b[2] % 16) * 4 + b[3] \div 64, b[3] % 64>>
        \o B64Encode(SubSeq(b, 4, Len(b)))

\* base64 -d: four digits make three bytes; padding ends the data.
RECURSIVE B64Decode(_)
B64Decode(d) ==
    IF Len(d) < 4 THEN <<>>
    ELSE LET b1 == d[1] * 4 + d[2] \div 16
             b2 == (d[2] % 16) * 16 + d[3] \div 4
             b3 == (d[3] % 4) * 64 + d[4]
         IN  IF d[3] = B64Pad THEN <<b1>>
             ELSE IF d[4] = B64Pad THEN <<b1, b2>>
             ELSE <<b1, b2, b3>> \o B64Decode(SubSeq(d, 5, Len(d)))

(* ------------------------ the remote filesystem ----------------------- *)

\* A path is a text.  A filesystem is a function from the paths of the
\* files that exist to their contents, and the set of directories.
Paths == {<<"f">>, <<"d", "/", NO_MATCHES>>}

Bak(file_path) == file_path \o <<".bak">>

AllFiles == Paths \cup {Bak(p) : p \in Paths}

\* os.path.dirname: what precedes the last "/", without that "/".
Dirname(file_path) ==
    LET slashes == {k \in 1..Len(file_path) : file_path[k] = "/"}
    IN  IF slashes = {} THEN <<>>
        ELSE LET last == CHOOSE k \in slashes : \A j \in slashes : j <= k
             IN  IF last = 1 THEN <<"/">> ELSE SubSeq(file_path, 1, last - 1)

Dirs == {Dirname(p) : p \in Paths} \ {<<>>}

Exists(fs, p) == p \in DOMAIN fs

Store(fs, p, content) ==
    [q \in DOMAIN fs \cup {p} |-> IF q = p THEN content ELSE fs[q]]

Remove(fs, p) == [q \in DOMAIN fs \ {p} |-> fs[q]]

\* A file can be opened or created when its directory exists.
DirOk(ds, p) == Dirname(p) = <<>> \/ Dirname(p) \in ds

Readable(fs, ds, p) == Exists(fs, p) /\ DirOk(ds, p)

(* ------------------------------- sed ---------------------------------- *)

\* The fields of a sed script's text up to each unescaped "/": a backslash
\* takes the next character with it.
RECURSIVE SedFields(_, _)
SedFields(script, cur) ==
    IF script = <<>> THEN <<cur>>
    ELSE IF Head(script) = "\\" /\ Len(script) >= 2 THEN
        SedFields(SubSeq(script, 3, Len(script)), cur \o SubSeq(script, 1, 2))
    ELSE IF Head(script) = "/" THEN <<cur>> \o SedFields(Tail(script), <<>>)
    ELSE SedFields(Tail(script), Append(cur, Head(script)))

\* A basic regular expression as a sequence of atoms: "\c" is the character
\* c, "." is any character, every other character is itself.
RECURSIVE Regex(_)
Regex(re) ==
    IF re = <<>> THEN <<>>
    ELSE IF Head(re) = "\\" /\ Len(re) >= 2 THEN
        <<[any |-> FALSE, c |-> re[2]]>> \o Regex(SubSeq(re, 3, Len(re)))
    ELSE IF Head(re) = "." THEN <<[any |-> TRUE, c |-> "."]>> \o Regex(Tail(re))
    ELSE <<[any |-> FALSE, c |-> Head(re)]>> \o Regex(Tail(re))

\* The regex matches the line at position k.
MatchAt(atoms, line, k) ==
    /\ k + Len(atoms) - 1 <= Len(line)
    /\ \A j \in 1..Len(atoms) : atoms[j].any \/ atoms[j].c = line[k + j - 1]

HasMatch(atoms, line) == \E k \in 1..Len(line) : MatchAt(atoms, line, k)

\* The replacement text for a match: "\c" is the character c, "&" is the
\* matched text, every other character is itself.
RECURSIVE Replacement(_, _)
Replacement(repl, matched) ==
    IF repl = <<>> THEN <<>>
    ELSE IF Head(repl) = "\\" /\ Len(repl) >= 2 THEN
        <<repl[2]>> \o Replacement(SubSeq(repl, 3, Len(repl)), matched)
    ELSE IF Head(repl) = "&" THEN matched \o Replacement(Tail(repl), matched)
    ELSE <<Head(repl)>> \o Replacement(Tail(repl), matched)

\* s/re/repl/ on one line from position k on: the leftmost match is
\* replaced; with g, so is every later match that does not overlap it.
RECURSIVE Subst(_, _, _, _, _)
Subst(atoms, repl, line, k, global) ==
    IF k > Len(line) THEN <<>>
    ELSE IF MatchAt(atoms, line, k) THEN
        LET n == Len(atoms)
            new == Replacement(repl, SubSeq(line, k, k + n - 1))
        IN  IF global THEN new \o Subst(atoms, repl, line, k + n, TRUE)
            ELSE new \o SubSeq(line, k + n, Len(line))
    ELSE <<line[k]>> \o Subst(atoms, repl, line, k + 1, global)

\* The lines joined again; the last line keeps the end it had.
RECURSIVE JoinLines(_, _)
JoinLines(lines, terminated) ==
    IF lines = <<>> THEN <<>>
    ELSE IF Len(lines) = 1 THEN Head(lines) \o (IF terminated THEN <<NL>> ELSE <<>>)
    ELSE Head(lines) \o <<NL>> \o JoinLines(Tail(lines), terminated)

\* A parsed script: s/re/repl/ or s/re/repl/g on every line, or
\* 0,/re/s//repl/ on the lines up to the first one that matches re (the
\* empty regex of s// is the last regex used, the address's).  ok is
\* FALSE for a script sed rejects.
SedParse(script) ==
    LET f == SedFields(script, <<>>)
        bad == [ok |-> FALSE, ranged |-> FALSE, global |-> FALSE, re |-> <<>>,
                repl |-> <<>>]
    IN  IF Contains(script, NL) THEN bad
        ELSE IF Len(f) = 4 /\ f[1] = <<"s">> /\ f[2] # <<>> /\ f[4] \in {<<>>, <<"g">>}
        THEN [ok |-> TRUE, ranged |-> FALSE, global |-> f[4] = <<"g">>, re |-> f[2],
              repl |-> f[3]]
        ELSE IF Len(f) = 6 /\ f[1] = <<"0", ",">> /\ f[2] # <<>> /\ f[3] = <<"s">>
                /\ f[4] = <<>> /\ f[6] = <<>>
        THEN [ok |-> TRUE, ranged |-> TRUE, global |-> FALSE, re |-> f[2],
              repl |-> f[5]]
        ELSE bad

\* sed -i with a parsed script on a file's content.
SedApply(ps, content) ==
    LET lines == Lines(content)
        atoms == Regex(ps.re)
        hits == {k \in 1..Len(lines) : HasMatch(atoms, lines[k])}
        first == IF hits = {} THEN 0 ELSE CHOOSE k \in hits : \A j \in hits : k <= j
        new == [k \in 1..Len(lines) |->
                  IF ~ps.ranged \/ first = 0 \/ k <= first
                  THEN Subst(atoms, ps.repl, lines[k], 1, ps.global)
                  ELSE lines[k]]
    IN  JoinLines(new, Terminated(content))

(* ------------------- the commands FileManager builds ------------------ *)

\* An absent offset or limit (Python's None).
None == -1

\* read_file reading through a copy: the copy command where lines 31-33
\* build the nl command.
ReadCmd_ViaCopy(file_path, offset, limit) ==
    IF offset # None /\ limit # None THEN
        [kind |-> "tail_head_nl", path |-> file_path, offset |-> offset, limit |-> limit]
    ELSE IF limit # None THEN
        [kind |-> "head_nl", path |-> file_path, limit |-> limit]
    ELSE [kind |-> "cp_probe", path |-> file_path, to |-> file_path \o <<".bak">>]

\* read_file's command: tail | head | nl with both offset and limit,
\* head | nl with a limit, nl otherwise.
ReadCmd(file_path, offset, limit) ==
    IF offset # None /\ limit # None THEN
        [kind |-> "tail_head_nl", path |-> file_path, offset |-> offset, limit |-> limit]
    ELSE IF limit # None THEN
        [kind |-> "head_nl", path |-> file_path, limit |-> limit]
    ELSE [kind |-> "nl", path |-> file_path]

MkdirCmd(dir_path) == [kind |-> "mkdir", path |-> dir_path]

\* echo '<base64 of the content>' | base64 -d > '<file_path>'
WriteCmd(file_path, content) ==
    [kind |-> "write", path |-> file_path, encoded |-> B64Encode(Utf8(content))]

\* cp '<file_path>' '<file_path>.bak' 2>&1
ProbeCmd(file_path) == [kind |-> "cp_probe", path |-> file_path, to |-> Bak(file_path)]

\* The backup removed where line 97 copies it anew: rm -f '<file_path>.bak'
BackupCmd_Remove(file_path) == [kind |-> "rm", path |-> Bak(file_path)]

\* cp '<file_path>' '<file_path>.bak'
BackupCmd(file_path) == [kind |-> "cp", path |-> file_path, to |-> Bak(file_path)]

\* str.replace(ch, "\\" + ch)
RECURSIVE EscapeChar(_, _)
EscapeChar(s, ch) ==
    IF s = <<>> THEN <<>>
    ELSE (IF Head(s) = ch THEN <<"\\", ch>> ELSE <<Head(s)>>) \o EscapeChar(Tail(s), ch)

\* escape_for_sed with line 82, the replacement of the backslash, moved
\* behind the others.
escape_for_sed_BackslashLast(s) ==
    LET s2 == EscapeChar(s, "/")
        s3 == EscapeChar(s2, ".")
        s4 == EscapeChar(s3, "*")
        s5 == EscapeChar(s4, "[")
        s6 == EscapeChar(s5, "]")
        s7 == EscapeChar(s6, "^")
        s8 == EscapeChar(s7, "$")
        s9 == EscapeChar(s8, "&")
    IN  EscapeChar(s9, "\\")

\* escape_for_sed without line 84, the replacement of ".".
escape_for_sed_NoDot(s) ==
    LET s1 == EscapeChar(s, "\\")
        s2 == EscapeChar(s1, "/")
        s4 == EscapeChar(s2, "*")
        s5 == EscapeChar(s4, "[")
        s6 == EscapeChar(s5, "]")
        s7 == EscapeChar(s6, "^")
        s8 == EscapeChar(s7, "$")
    IN  EscapeChar(s8, "&")

escape_for_sed(s) ==
    LET s1 == EscapeChar(s, "\\")
        s2 == EscapeChar(s1, "/")
        s3 == EscapeChar(s2, ".")
        s4 == EscapeChar(s3, "*")
        s5 == EscapeChar(s4, "[")
        s6 == EscapeChar(s5, "]")
        s7 == EscapeChar(s6, "^")
        s8 == EscapeChar(s7, "$")
    IN  EscapeChar(s8, "&")

\* Line 104 without its address 0,/old/: s/old/new/ on every line.
SedScript_EveryLine(old_string, new_string, replace_all) ==
    LET escaped_old == escape_for_sed(old_string)
        escaped_new == escape_for_sed(new_string)
    IN  <<"s", "/">> \o escaped_old \o <<"/">> \o escaped_new
        \o (IF replace_all THEN <<"/", "g">> ELSE <<"/">>)

\* The sed script: s/old/new/g with replace_all, 0,/old/s//new/ without.
SedScript(old_string, new_string, replace_all) ==
    LET escaped_old == escape_for_sed(old_string)
        escaped_new == escape_for_sed(new_string)
    IN  IF replace_all
        THEN <<"s", "/">> \o escaped_old \o <<"/">> \o escaped_new \o <<"/", "g">>
        ELSE <<"0", ",", "/">> \o escaped_old \o <<"/", "s", "/", "/">>
             \o escaped_new \o <<"/">>

SedCmd(file_path, old_string, new_string, replace_all) ==
    [kind |-> "sed", path |-> file_path,
     script |-> SedScript(old_string, new_string, replace_all)]

\* The backup copied back where line 109 removes it:
\* cp '<file_path>.bak' '<file_path>'
CleanupCmd_Restore(file_path) ==
    [kind |-> "cp", path |-> Bak(file_path), to |-> file_path]

\* rm -f '<file_path>.bak'
CleanupCmd(file_path) == [kind |-> "rm", path |-> Bak(file_path)]

StatCmd(file_path) == [kind |-> "stat", path |-> file_path]

(* ----------------- the command lines and the shell -------------------- *)

\* The base64 alphabet and "=".
B64Chars ==
    <<"A", "B", "C", "D", "E", "F", "G", "H", "I", "J", "K", "L", "M", "N", "O", "P",
      "Q", "R", "S", "T", "U", "V", "W", "X", "Y", "Z", "a", "b", "c", "d", "e", "f",
      "g", "h", "i", "j", "k", "l", "m", "n", "o", "p", "q", "r", "s", "t", "u", "v",
      "w", "x", "y", "z", "0", "1", "2", "3", "4", "5", "6", "7", "8", "9", "+", "/",
      "=">>

\* .decode('ascii') of the encoded content.
B64Text(encoded) == [k \in 1..Len(encoded) |-> B64Chars[encoded[k] + 1]]

\* '{s}': the f-strings put s between two single quotes, as it is.
Quote(s) == <<"'">> \o s \o <<"'">>

\* The text of each command, as the f-strings of lines 27-33, 51, 60, 73,
\* 97, 102-104, 109 and 137-145 build it.
CmdText(cmd) ==
    CASE cmd.kind = "nl" ->
           <<"nl", " ", "-ba", " ">> \o Quote(cmd.path) \o <<" ", "2>&1">>
      [] cmd.kind = "head_nl" ->
           <<"head", " ", "-n", " ">> \o Digits(cmd.limit) \o <<" ">> \o Quote(cmd.path)
           \o <<" ", "2>&1", " ", "|", " ", "nl", " ", "-ba">>
      [] cmd.kind = "tail_head_nl" ->
           <<"tail", " ", "-n", " ", "+">> \o Digits(cmd.offset) \o <<" ">>
           \o Quote(cmd.path)
           \o <<" ", "2>&1", " ", "|", " ", "head", " ", "-n", " ">> \o Digits(cmd.limit)
           \o <<" ", "|", " ", "nl", " ", "-ba", " ", "-v", " ">> \o Digits(cmd.offset)
      [] cmd.kind = "mkdir" -> <<"mkdir", " ", "-p", " ">> \o Quote(cmd.path)
      [] cmd.kind = "write" ->
           <<"echo", " ">> \o Quote(B64Text(cmd.encoded))
           \o <<" ", "|", " ", "base64", " ", "-d", " ", ">", " ">> \o Quote(cmd.path)
      [] cmd.kind = "cp_probe" ->
           <<"cp", " ">> \o Quote(cmd.path) \o <<" ">> \o Quote(cmd.to) \o <<" ", "2>&1">>
      [] cmd.kind = "cp" -> <<"cp", " ">> \o Quote(cmd.path) \o <<" ">> \o Quote(cmd.to)
      [] cmd.kind = "sed" ->
           <<"sed", " ", "-i", " ">> \o Quote(cmd.script) \o <<" ">> \o Quote(cmd.path)
      [] cmd.kind = "rm" -> <<"rm", " ", "-f", " ">> \o Quote(cmd.path)
      [] cmd.kind = "stat" ->
           <<NL, "if", " ", "[", " ", "-e", " ">> \o Quote(cmd.path)
           \o <<" ", "]", ";", " ", "then", NL,
                "stat", " ", "-c", " ", "'", "%s %Y %U:%G %a", "'", " ">>
           \o Quote(cmd.path)
           \o <<" ", "2>/dev/null", " ", "||", " ",
                "stat", " ", "-f", " ", "'", "%z %m %Su:%Sg %Lp", "'", " ">>
           \o Quote(cmd.path)
           \o <<NL, "echo", " ", "-n", " ", "'", " ", "'", NL,
                "file", " ", "-b", " ">>
           \o Quote(cmd.path)
           \o <<" ", "2>/dev/null", " ", "||", " ", "echo", " ", "'", "unknown", "'", NL,
                "else", NL, "echo", " ", "'", NOT_FOUND, "'", NL, "fi", NL>>

\* The shell's operators among the tokens of a command text.
ShellOps == {"|", "||", ";", ">", "2>&1", "2>/dev/null", NL}

\* A word of a command line, and an operator.
ShellWord(w) == [w |-> w, op |-> FALSE]
ShellOp(t) == [w |-> <<t>>, op |-> TRUE]

\* The shell reading a command text: a single quote opens or closes a
\* quoted stretch, in which every token is taken as it is; outside one, a
\* blank ends the word and an operator stands for itself.  (Of the shell's
\* syntax the texts here use only this.)  ok: every quote opened is
\* closed; words: the words, without their quotes, and the operators.
ShellWords(text) ==
    LET n == Len(text)
        positions == [k \in 1..n |-> k]
        isQuote(k) == text[k] = "'"
        \* the positions of the quotes: the odd ones open, the even ones close
        qs == SelectSeq(positions, isQuote)
        inq == [k \in 1..n |->
                   /\ ~isQuote(k)
                   /\ \E m \in 1..Len(qs) :
                        m % 2 = 1 /\ qs[m] < k /\ (m = Len(qs) \/ k < qs[m + 1])]
        op == [k \in 1..n |-> ~inq[k] /\ text[k] \in ShellOps]
        sep == [k \in 1..n |-> ~inq[k] /\ (text[k] = " " \/ text[k] \in ShellOps)]
        isStart(k) == op[k] \/ (~sep[k] /\ (k = 1 \/ sep[k - 1]))
        starts == SelectSeq(positions, isStart)
        last(k) == CHOOSE e \in k..n :
                       /\ e = n \/ sep[e + 1]
                       /\ \A j \in k..e : ~sep[j]
        unquoted(t) == t # "'"
        item(k) == IF op[k] THEN ShellOp(text[k])
                   ELSE ShellWord(SelectSeq(SubSeq(text, k, last(k)), unquoted))
    IN  [ok |-> Len(qs) % 2 = 0,
         words |-> [m \in 1..Len(starts) |-> item(starts[m])]]

\* A sequence of one-token words.
Plain(ts) == [k \in 1..Len(ts) |-> ShellWord(<<ts[k]>>)]

\* The words and operators each command is meant to be: what Exec takes
\* the command to be.
Meant(cmd) ==
    LET path == ShellWord(cmd.path)
    IN  CASE cmd.kind = "nl" -> Plain(<<"nl", "-ba">>) \o <<path, ShellOp("2>&1")>>
          [] cmd.kind = "head_nl" ->
               Plain(<<"head", "-n">>)
               \o <<ShellWord(Digits(cmd.limit)), path, ShellOp("2>&1"), ShellOp("|")>>
               \o Plain(<<"nl", "-ba">>)
          [] cmd.kind = "tail_head_nl" ->
               Plain(<<"tail", "-n">>)
               \o <<ShellWord(<<"+">> \o Digits(cmd.offset)), path, ShellOp("2>&1"),
                    ShellOp("|")>>
               \o Plain(<<"head", "-n">>) \o <<ShellWord(Digits(cmd.limit)), ShellOp("|")>>
               \o Plain(<<"nl", "-ba", "-v">>) \o <<ShellWord(Digits(cmd.offset))>>
          [] cmd.kind = "mkdir" -> Plain(<<"mkdir", "-p">>) \o <<path>>
          [] cmd.kind = "write" ->
               Plain(<<"echo">>) \o <<ShellWord(B64Text(cmd.encoded)), ShellOp("|")>>
               \o Plain(<<"base64", "-d">>) \o <<ShellOp(">"), path>>
          [] cmd.kind = "cp_probe" ->
               Plain(<<"cp">>) \o <<path, ShellWord(cmd.to), ShellOp("2>&1")>>
          [] cmd.kind = "cp" -> Plain(<<"cp">>) \o <<path, ShellWord(cmd.to)>>
          [] cmd.kind = "sed" ->
               Plain(<<"sed", "-i">>) \o <<ShellWord(cmd.script), path>>
          [] cmd.kind = "rm" -> Plain(<<"rm", "-f">>) \o <<path>>
          [] cmd.kind = "stat" ->
               <<ShellOp(NL)>> \o Plain(<<"if", "[", "-e">>) \o <<path>>
               \o Plain(<<"]">>) \o <<ShellOp(";")>> \o Plain(<<"then">>)
               \o <<ShellOp(NL)>> \o Plain(<<"stat", "-c", "%s %Y %U:%G %a">>)
               \o <<path, ShellOp("2>/dev/null"), ShellOp("||")>>
               \o Plain(<<"stat", "-f", "%z %m %Su:%Sg %Lp">>) \o <<path, ShellOp(NL)>>
               \o Plain(<<"echo", "-n", " ">>) \o <<ShellOp(NL)>>
               \o Plain(<<"file", "-b">>)
               \o <<path, ShellOp("2>/dev/null"), ShellOp("||")>>
               \o Plain(<<"echo", "unknown">>) \o <<ShellOp(NL)>>
               \o Plain(<<"else">>) \o <<ShellOp(NL)>>
               \o Plain(<<"echo", NOT_FOUND>>) \o <<ShellOp(NL)>>
               \o Plain(<<"fi">>) \o <<ShellOp(NL)>>

\* The shell reads the command's text as the command it is meant to be.
ReadAsMeant(cmd) ==
    LET l == ShellWords(CmdText(cmd))
    IN  l.ok /\ l.words = Meant(cmd)

(* ------------------- what the commands do remotely -------------------- *)

\* The fields stat and file print for an existing file:
\* "<size> <mtime> <owner>:<group> <perms>\n <type>\n".
StatText(content) ==
    Digits(Len(Utf8(content))) \o <<" ", "1700000000", " ", "root:root", " ", "644", NL, " ">>
    \o (IF content = <<>> THEN <<"empty">> ELSE <<"ASCII", " ", "text">>) \o <<NL>>

\* A command run to its end on the filesystem (fs, ds): the filesystem it
\* leaves, its output (stdout, with stderr where the command says 2>&1 or
\* the shell reports the error) and its exit code.  A pipeline's exit code
\* is that of its last command.
Exec(cmd, fs, ds) ==
    LET same(out, code) == [files |-> fs, dirs |-> ds, out |-> out, code |-> code]
        there == Exists(fs, cmd.path)
        openErr(tool) == <<tool, ": ", CANNOT_OPEN, " '">> \o cmd.path
                         \o <<"' for reading: ", NSF>>
    IN  CASE cmd.kind = "nl" ->
               IF there THEN same(Nl(Lines(fs[cmd.path]), 1), 0)
               ELSE same(<<"nl: ">> \o cmd.path \o <<": ", NSF, NL>>, 1)
          [] cmd.kind = "head_nl" ->
               IF there THEN same(Nl(HeadLines(Lines(fs[cmd.path]), cmd.limit), 1), 0)
               ELSE same(Nl(<<openErr("head")>>, 1), 0)
          [] cmd.kind = "tail_head_nl" ->
               LET lines == IF there THEN TailLines(Lines(fs[cmd.path]), cmd.offset)
                            ELSE <<openErr("tail")>>
               IN  same(Nl(HeadLines(lines, cmd.limit), cmd.offset), 0)
          [] cmd.kind = "mkdir" ->
               [files |-> fs, dirs |-> ds \cup {cmd.path}, out |-> <<>>, code |-> 0]
          [] cmd.kind = "write" ->
               IF DirOk(ds, cmd.path)
               THEN [files |-> Store(fs, cmd.path, FromUtf8(B64Decode(cmd.encoded))),
                     dirs |-> ds, out |-> <<>>, code |-> 0]
               ELSE same(<<"bash: ">> \o cmd.path \o <<": ", NSF, NL>>, 1)
          [] cmd.kind \in {"cp_probe", "cp"} ->
               IF there
               THEN [files |-> Store(fs, cmd.to, fs[cmd.path]),
                     dirs |-> ds, out |-> <<>>, code |-> 0]
               ELSE same(<<"cp: cannot stat '">> \o cmd.path \o <<"': ", NSF, NL>>, 1)
          [] cmd.kind = "sed" ->
               LET ps == SedParse(cmd.script)
               IN  IF ~ps.ok THEN same(<<"sed: -e expression #1: unterminated", NL>>, 1)
                   ELSE IF ~there
                   THEN same(<<"sed: can't read ">> \o cmd.path \o <<": ", NSF, NL>>, 2)
                   ELSE [files |-> Store(fs, cmd.path, SedApply(ps, fs[cmd.path])),
                         dirs |-> ds, out |-> <<>>, code |-> 0]
          [] cmd.kind = "rm" ->
               [files |-> Remove(fs, cmd.path), dirs |-> ds, out |-> <<>>, code |-> 0]
          [] cmd.kind = "stat" ->
               IF there THEN same(StatText(fs[cmd.path]), 0)
               ELSE same(<<NOT_FOUND, NL>>, 0)

(* ----------------------- the command executor ------------------------- *)

\* The exit code the executor reports for a command it had to terminate.
TimeoutCode == 124

\* What it returns as output then.
TimeoutOutputs == {<<>>, <<"Command timed out", NL>>}

\* A line the remote shell may write before a command's own output.
Noise == <<"bash: warning: ", NSF, NL>>

\* What the shell answers to a text it does not read as the command meant:
\* a syntax error, or whatever the commands it does read answer.  None of
\* them is taken to touch the files and directories followed here.
Misread == {[out |-> <<"bash: syntax error", NL>>, code |-> 2],
            [out |-> <<"usage", NL>>, code |-> 1],
            [out |-> <<>>, code |-> 0]}

\* executor.execute(cmd, timeout): the answers the executor may give to a
\* command.  The command runs to its end (the shell may add a line to its
\* output), or the timeout ends it before or after it took effect.
Responses(cmd, fs, ds) ==
    IF ~ReadAsMeant(cmd)
    THEN {[files |-> fs, dirs |-> ds, out |-> m.out, code |-> m.code] : m \in Misread}
    ELSE
    LET n == Exec(cmd, fs, ds)
    IN  {[files |-> n.files, dirs |-> n.dirs, out |-> o, code |-> n.code] :
            o \in {n.out, Noise \o n.out}}
        \cup
        {[files |-> e.files, dirs |-> e.dirs, out |-> o, code |-> TimeoutCode] :
            e \in {[files |-> fs, dirs |-> ds], [files |-> n.files, dirs |-> n.dirs]},
            o \in TimeoutOutputs}

(* ------------------------------ state --------------------------------- *)

VARIABLES
    files,      \* the remote files: path -> content
    dirs,       \* the remote directories
    pc,         \* the command the running call sends next; "idle", "done"
    call,       \* the running public call and its arguments
    output,     \* the call's local variables output, code (lines 36, 62, 106)
    code,
    i,          \* the loop index of multi_edit_file and get_metadata
    results,    \* their list of results
    ret,        \* the value the call returned
    erets,      \* the values edit_file returned during the call
    before,     \* the target file as each of these edit_file calls found it
    pre,        \* the filesystem when the call began
    sent,       \* the commands sent during the call, in order, each with its
                \* kind and the path it names, the edit (or the path's
                \* number) it belongs to and whether its exit code was 0
    prev,       \* the last write_file call that returned, and its result
    ncalls,     \* calls made so far
    waiting     \* the calls suspended at an await while another call runs

vars == <<files, dirs, pc, call, output, code, i, results, ret, erets, before, pre,
          sent, prev, ncalls, waiting>>

NoCall == [op |-> "none"]
NoRet == [msg |-> <<>>, err |-> FALSE]

\* A file as a call finds it: whether it is there, and what it holds.
Found(fs, p) == [there |-> Exists(fs, p), content |-> IF Exists(fs, p) THEN fs[p] ELSE <<>>]

\* self._run_command(cmd): the executor runs cmd and answers r.
run_command(cmd, r) ==
    /\ files' = r.files
    /\ dirs' = r.dirs
    /\ sent' = Append(sent, [kind |-> cmd.kind, path |-> cmd.path, edit |-> i + 1,
                              ok |-> r.code = 0, cmd |-> cmd,
                              bak |-> IF call.op \in {"edit_file", "multi_edit_file"}
                                      THEN Found(r.files, Bak(call.path))
                                      ELSE Found(r.files, <<>>)])

\* A public method is called: its frame is fresh.
Begin(c, first) ==
    /\ pc = "idle"
    /\ ncalls' = ncalls + 1
    /\ call' = c
    /\ pc' = first
    /\ pre' = [files |-> files, dirs |-> dirs]
    /\ UNCHANGED <<files, dirs, output, code, i, results, erets, before, sent, prev,
                    waiting>>

\* The method returns value v.
Return(v) == ret' = v /\ pc' = "done"

\* The caller takes the returned value.
Finish ==
    /\ pc = "done"
    /\ prev' = IF call.op = "write_file" THEN [call |-> call, ret |-> ret] ELSE prev
    /\ pc' = "idle"
    /\ call' = NoCall
    /\ output' = <<>> /\ code' = 0 /\ i' = 0 /\ results' = <<>>
    /\ ret' = NoRet /\ erets' = <<>> /\ before' = <<>> /\ sent' = <<>>
    /\ pre' = [files |-> files, dirs |-> dirs]
    /\ UNCHANGED <<files, dirs, ncalls, waiting>>

(* ----------------------------- read_file ------------------------------ *)

call_read_file(file_path, offset, limit) ==
    /\ Begin([op |-> "read_file", path |-> file_path, offset |-> offset,
              limit |-> limit], "read")
    /\ UNCHANGED ret

\* Lines 38-44 with the marker looked for only after a nonzero exit code.
ReadResult_MarkerNeedsExit(file_path, out, c) ==
    IF c # 0 /\ (Contains(out, NSF) \/ Contains(out, CANNOT_OPEN))
    THEN [msg |-> <<"File not found: ">> \o file_path, err |-> TRUE]
    ELSE IF c # 0 /\ out # <<>>
    THEN [msg |-> <<"Error reading file: ">> \o out, err |-> TRUE]
    ELSE [msg |-> out, err |-> FALSE]

\* Lines 38-44: how read_file classifies the executor's answer.
ReadResult(file_path, out, c) ==
    IF Contains(out, NSF) \/ Contains(out, CANNOT_OPEN)
    THEN [msg |-> <<"File not found: ">> \o file_path, err |-> TRUE]
    ELSE IF c # 0 /\ out # <<>>
    THEN [msg |-> <<"Error reading file: ">> \o out, err |-> TRUE]
    ELSE [msg |-> out, err |-> FALSE]

read_file_run ==
    /\ pc = "read"
    /\ \E r \in Responses(ReadCmd(call.path, call.offset, call.limit), files, dirs) :
         /\ run_command(ReadCmd(call.path, call.offset, call.limit), r)
         /\ output' = r.out /\ code' = r.code
         /\ Return(ReadResult(call.path, r.out, r.code))
    /\ UNCHANGED <<call, i, results, erets, before, pre, prev, ncalls, waiting>>

(* ----------------------------- write_file ----------------------------- *)

call_write_file(file_path, content) ==
    /\ Begin([op |-> "write_file", path |-> file_path, content |-> content],
             IF Dirname(file_path) # <<>> THEN "mkdir" ELSE "write")
    /\ UNCHANGED ret

\* Lines 49-52: the directory is created; the answer is not looked at.
write_file_mkdir ==
    /\ pc = "mkdir"
    /\ \E r \in Responses(MkdirCmd(Dirname(call.path)), files, dirs) :
         run_command(MkdirCmd(Dirname(call.path)), r)
    /\ pc' = "write"
    /\ UNCHANGED <<call, output, code, i, results, ret, erets, before, pre, prev, ncalls, waiting>>

\* Lines 64-67 with read_file's test (line 41) for a failure.
WriteResult_NeedsOutput(file_path, out, c) ==
    IF c # 0 /\ out # <<>> THEN [msg |-> <<"Error writing file: ">> \o out, err |-> TRUE]
    ELSE [msg |-> <<"Successfully wrote to ">> \o file_path, err |-> FALSE]

\* Lines 64-67.
WriteResult(file_path, out, c) ==
    IF c # 0 THEN [msg |-> <<"Error writing file: ">> \o out, err |-> TRUE]
    ELSE [msg |-> <<"Successfully wrote to ">> \o file_path, err |-> FALSE]

write_file_write ==
    /\ pc = "write"
    /\ \E r \in Responses(WriteCmd(call.path, call.content), files, dirs) :
         /\ run_command(WriteCmd(call.path, call.content), r)
         /\ output' = r.out /\ code' = r.code
         /\ Return(WriteResult(call.path, r.out, r.code))
    /\ UNCHANGED <<call, i, results, erets, before, pre, prev, ncalls, waiting>>

(* -------------------- edit_file and multi_edit_file ------------------- *)

\* An edit: (old_string, new_string, replace_all).
Edit(old_string, new_string, replace_all) ==
    [old |-> old_string, new |-> new_string, all |-> replace_all]

\* The first edit of the list at every turn of the loop.
CurEdit_First == IF call.op = "edit_file" THEN call.edit ELSE call.edits[1]

\* The edit that edit_file is working on.
CurEdit == IF call.op = "edit_file" THEN call.edit ELSE call.edits[i + 1]

\* "\n".join(results) and "\n\n".join(results)
RECURSIVE Join(_, _)
Join(rs, sep) ==
    IF rs = <<>> THEN <<>>
    ELSE IF Len(rs) = 1 THEN Head(rs)
    ELSE Head(rs) \o sep \o Join(Tail(rs), sep)

\* The loop index itself, counted from 0.
EditNumber_ZeroBased(k) == k

\* The number multi_edit_file gives the edit at loop index k (i+1).
EditNumber(k) == k + 1

\* Line 124: the edit's result ends the batch.
Fatal(v) == v.err /\ ~Contains(v.msg, NO_MATCHES)

\* edit_file returns v: to its caller, or into multi_edit_file's loop
\* (lines 124-129), which then returns or goes on to the next edit.
EditReturns(v) ==
    /\ erets' = Append(erets, v)
    /\ IF call.op = "edit_file" THEN Return(v) /\ UNCHANGED <<i, results>>
       ELSE IF Fatal(v) THEN
            /\ Return([msg |-> <<"Error on edit ">> \o Digits(EditNumber(i))
                               \o <<": ">> \o v.msg,
                       err |-> TRUE])
            /\ UNCHANGED <<i, results>>
       ELSE LET rs == Append(results, <<"Edit ">> \o Digits(EditNumber(i))
                                      \o <<": ">> \o v.msg)
            IN  /\ results' = rs
                /\ IF i + 1 < Len(call.edits)
                   THEN i' = i + 1 /\ pc' = "probe" /\ UNCHANGED ret
                   ELSE Return([msg |-> Join(rs, <<NL>>), err |-> FALSE])
                        /\ UNCHANGED i

call_edit_file(file_path, e) ==
    /\ Begin([op |-> "edit_file", path |-> file_path, edit |-> e], "probe")
    /\ UNCHANGED ret

call_multi_edit_file(file_path, edits) ==
    /\ Begin([op |-> "multi_edit_file", path |-> file_path, edits |-> edits],
             IF edits = <<>> THEN "done" ELSE "probe")
    /\ ret' = IF edits = <<>> THEN [msg |-> <<>>, err |-> FALSE] ELSE ret

\* Line 76 without its exit-code test.
ProbeFailed_MarkerOnly(out, c) == Contains(out, NSF)

\* Line 76: the probe copy did not succeed.
ProbeFailed(out, c) == Contains(out, NSF) \/ c # 0

\* Lines 73-77: the backup copy that is also the existence check.
edit_file_probe ==
    /\ pc = "probe"
    /\ before' = Append(before, Found(files, call.path))
    /\ \E r \in Responses(ProbeCmd(call.path), files, dirs) :
         /\ run_command(ProbeCmd(call.path), r)
         /\ output' = r.out /\ code' = r.code
         /\ IF ProbeFailed(r.out, r.code)
            THEN EditReturns([msg |-> <<"File not found: ">> \o call.path, err |-> TRUE])
            ELSE pc' = "backup" /\ UNCHANGED <<i, results, ret, erets>>
    /\ UNCHANGED <<call, pre, prev, ncalls, waiting>>

\* Lines 97-98: the second backup copy; the answer is not looked at.
edit_file_backup ==
    /\ pc = "backup"
    /\ \E r \in Responses(BackupCmd(call.path), files, dirs) :
         run_command(BackupCmd(call.path), r)
    /\ pc' = "sed"
    /\ UNCHANGED <<call, output, code, i, results, ret, erets, before, pre, prev, ncalls, waiting>>

\* Lines 101-106: the substitution.
edit_file_sed ==
    /\ pc = "sed"
    /\ LET cmd == SedCmd(call.path, CurEdit.old, CurEdit.new, CurEdit.all)
       IN  \E r \in Responses(cmd, files, dirs) :
             /\ run_command(cmd, r)
             /\ output' = r.out /\ code' = r.code
    /\ pc' = "cleanup"
    /\ UNCHANGED <<call, i, results, ret, erets, before, pre, prev, ncalls, waiting>>

\* Lines 112-115 with the not-found marker in the output taken as an error
\* too.
EditResult_MarkerToo(file_path, replace_all, out, c) ==
    IF c # 0 \/ Contains(out, NSF)
    THEN [msg |-> <<"Error editing file: ">> \o out, err |-> TRUE]
    ELSE [msg |-> <<"Successfully replaced ",
                    IF replace_all THEN "all occurrences" ELSE "first occurrence",
                    " in ">> \o file_path,
          err |-> FALSE]

\* Lines 112-115.
EditResult(file_path, replace_all, out, c) ==
    IF c # 0 THEN [msg |-> <<"Error editing file: ">> \o out, err |-> TRUE]
    ELSE [msg |-> <<"Successfully replaced ",
                    IF replace_all THEN "all occurrences" ELSE "first occurrence",
                    " in ">> \o file_path,
          err |-> FALSE]

\* Lines 109-115: the backup is removed (the answer is not looked at) and
\* edit_file returns by the substitution's exit code.
edit_file_cleanup ==
    /\ pc = "cleanup"
    /\ \E r \in Responses(CleanupCmd(call.path), files, dirs) :
         run_command(CleanupCmd(call.path), r)
    /\ EditReturns(EditResult(call.path, CurEdit.all, output, code))
    /\ UNCHANGED <<call, output, code, before, pre, prev, ncalls, waiting>>

(* ---------------------------- get_metadata ---------------------------- *)

\* file_paths[:10]
MetadataLimit == 10

\* file_paths without the slice.
Limited_All(file_paths) == file_paths

Limited(file_paths) ==
    SubSeq(file_paths, 1,
           IF Len(file_paths) < MetadataLimit THEN Len(file_paths) ELSE MetadataLimit)

IsSpace(tok) == tok \in {" ", NL, "\t"}

\* str.strip()
RECURSIVE LStrip(_)
LStrip(t) == IF t # <<>> /\ IsSpace(Head(t)) THEN LStrip(Tail(t)) ELSE t

RECURSIVE RStrip(_)
RStrip(t) == IF t # <<>> /\ IsSpace(t[Len(t)]) THEN RStrip(SubSeq(t, 1, Len(t) - 1))
             ELSE t

Strip(t) == RStrip(LStrip(t))

\* The first word of a text that starts with none of the separators.
RECURSIVE FirstWord(_)
FirstWord(t) == IF t = <<>> \/ IsSpace(Head(t)) THEN <<>>
                ELSE <<Head(t)>> \o FirstWord(Tail(t))

\* The characters of a phrase token, as far as whitespace goes: its words
\* and the spaces between them.
Spell(tok) ==
    CASE tok = NSF -> <<"No", " ", "such", " ", "file", " ", "or", " ", "directory">>
      [] tok = CANNOT_OPEN -> <<"cannot", " ", "open">>
      [] tok = "Command timed out" -> <<"Command", " ", "timed", " ", "out">>
      [] tok = "bash: warning: " -> <<"bash:", " ", "warning:", " ">>
      [] OTHER -> <<tok>>

\* A text with its phrase tokens spelled out.
RECURSIVE SpellOut(_)
SpellOut(t) == IF t = <<>> THEN <<>> ELSE Spell(Head(t)) \o SpellOut(Tail(t))

\* str.split() without maxsplit: every word is a part.
RECURSIVE Split_All(_, _)
Split_All(t, n) ==
    LET u == LStrip(t)
    IN  IF u = <<>> THEN <<>>
        ELSE LET w == FirstWord(u)
             IN  <<w>> \o Split_All(SubSeq(u, Len(w) + 1, Len(u)), n)

\* str.split(maxsplit=n): the words between runs of whitespace; after n
\* splits what is left, without its leading whitespace, is the last part.
RECURSIVE Split(_, _)
Split(t, n) ==
    LET u == LStrip(t)
    IN  IF u = <<>> THEN <<>>
        ELSE IF n = 0 THEN <<u>>
        ELSE LET w == FirstWord(u)
             IN  <<w>> \o Split(SubSeq(u, Len(w) + 1, Len(u)), n - 1)

\* Lines 149-157: the block of one path.
MetaBlock(file_path, out) ==
    IF Contains(out, NOT_FOUND) THEN file_path \o <<": Not found">>
    ELSE LET parts == Split(Strip(SpellOut(out)), 4)
         IN  IF Len(parts) >= 5
             THEN file_path \o <<":", NL, "  Size: ">> \o parts[1]
                  \o <<" bytes", NL, "  Type: ">> \o parts[5]
                  \o <<NL, "  Owner: ">> \o parts[3]
                  \o <<NL, "  Permissions: ">> \o parts[4]
             ELSE file_path \o <<": Unable to get metadata">>

call_get_metadata(file_paths) ==
    /\ Begin([op |-> "get_metadata", paths |-> file_paths],
             IF Limited(file_paths) = <<>> THEN "done" ELSE "stat")
    /\ ret' = IF Limited(file_paths) = <<>> THEN [msg |-> <<>>, err |-> FALSE] ELSE ret

\* Lines 135-159: one path's command and block; after the last one the
\* report is returned.
get_metadata_stat ==
    /\ pc = "stat"
    /\ LET file_path == Limited(call.paths)[i + 1]
       IN  \E r \in Responses(StatCmd(file_path), files, dirs) :
             /\ run_command(StatCmd(file_path), r)
             /\ output' = r.out
             /\ LET rs == Append(results, MetaBlock(file_path, r.out))
                IN  /\ results' = rs
                    /\ IF i + 1 < Len(Limited(call.paths))
                       THEN i' = i + 1 /\ pc' = "stat" /\ UNCHANGED ret
                       ELSE Return([msg |-> Join(rs, <<NL, NL>>), err |-> FALSE])
                            /\ UNCHANGED i
    /\ UNCHANGED <<call, code, erets, before, pre, prev, ncalls, waiting>>

(* --------------------------- specification ---------------------------- *)

\* The filesystems with files of the given contents: a file exists only in
\* a directory that exists.
FileSystems(contents) ==
    {fs \in [files : UNION {[S -> contents] : S \in SUBSET AllFiles},
             dirs : SUBSET Dirs] :
        \A p \in DOMAIN fs.files : DirOk(fs.dirs, p)}

\* No call is running.
Idle ==
    /\ pc = "idle" /\ call = NoCall
    /\ output = <<>> /\ code = 0 /\ i = 0 /\ results = <<>>
    /\ ret = NoRet /\ erets = <<>> /\ before = <<>> /\ sent = <<>>
    /\ prev = [call |-> NoCall, ret |-> NoRet]
    /\ ncalls = 0
    /\ waiting = <<>>

Offsets == {None} \cup 1..MaxOffset
Limits == {None} \cup 0..MaxLimit

\* The contents and edits of the calls of Spec.
SomeContents == {<<"x", NL, ".", "x", NL>>}
SomeEdits == {Edit(<<"x">>, <<".">>, TRUE), Edit(<<".", ".">>, <<"x">>, FALSE)}

Init ==
    /\ \E fs \in FileSystems(SomeContents) :
         /\ files = fs.files /\ dirs = fs.dirs
         /\ pre = [files |-> fs.files, dirs |-> fs.dirs]
    /\ Idle

Steps ==
    \/ read_file_run
    \/ write_file_mkdir
    \/ write_file_write
    \/ edit_file_probe
    \/ edit_file_backup
    \/ edit_file_sed
    \/ edit_file_cleanup
    \/ get_metadata_stat
    \/ Finish

Calls ==
    \/ \E p \in Paths, offset \in Offsets, limit \in Limits :
         call_read_file(p, offset, limit)
    \/ \E p \in Paths, c \in SomeContents : call_write_file(p, c)
    \/ \E p \in Paths, e \in SomeEdits : call_edit_file(p, e)
    \/ \E p \in Paths, es \in SeqsUpTo(SomeEdits, MaxEdits) :
         call_multi_edit_file(p, es)
    \/ \E ps \in SeqsUpTo(Paths, MaxPaths) : call_get_metadata(ps)

Next == (ncalls < MaxCalls /\ Calls) \/ Steps

Spec == Init /\ [][Next]_vars

(* --------------- reading files of several lines (SpecRead) ------------ *)

\* The lines of the files read page by page: plain ones, an empty one, and
\* ones that hold the text of an error message.
ReadLines == {<<"x">>, <<".">>, <<>>, <<CANNOT_OPEN>>}

\* The files of at most MaxLines such lines; the last line may lack its "\n".
ReadContents ==
    {JoinLines(ls, t) : ls \in SeqsUpTo(ReadLines, MaxLines), t \in BOOLEAN}

InitRead ==
    /\ \E S \in SUBSET {<<"f">>} : \E f \in [S -> ReadContents] :
         /\ files = f /\ dirs = {}
         /\ pre = [files |-> f, dirs |-> {}]
    /\ Idle

NextRead ==
    \/ /\ ncalls < MaxCalls
       /\ \E p \in Paths, offset \in Offsets, limit \in Limits :
            call_read_file(p, offset, limit)
    \/ read_file_run
    \/ Finish

SpecRead == InitRead /\ [][NextRead]_vars

(* ------------------ writing, then reading (SpecRW) -------------------- *)

\* Every content of at most MaxLen tokens.
WriteContents == SeqsUpTo(ContentTokens, MaxLen)

InitRW ==
    /\ \E ds \in SUBSET Dirs :
         /\ files = <<>> /\ dirs = ds
         /\ pre = [files |-> <<>>, dirs |-> ds]
    /\ Idle

\* A caller that writes a file and then reads a file whole.
NextRW ==
    \/ /\ ncalls = 0
       /\ \E p \in Paths, c \in WriteContents : call_write_file(p, c)
    \/ /\ ncalls = 1
       /\ \E p \in Paths : call_read_file(p, None, None)
    \/ write_file_mkdir
    \/ write_file_write
    \/ read_file_run
    \/ Finish

SpecRW == InitRW /\ [][NextRW]_vars

(* --------------------- single edits (SpecEdit) ------------------------ *)

\* The characters of a file that is edited and of old_string; new_string
\* may also hold "&", which stands for the match in a sed replacement.
EditChars == {"x", "."}
NewChars == EditChars \cup {"&"}

EditContents == SeqsUpTo(EditChars \cup {NL}, MaxEditLen)

\* Every edit with a non-empty old_string of at most MaxStr characters and
\* a new_string of at most MaxNew.
AllEdits ==
    {Edit(o, n, a) : o \in SeqsUpTo(EditChars, MaxStr) \ {<<>>},
                     n \in SeqsUpTo(NewChars, MaxNew), a \in BOOLEAN}

InitEdit ==
    /\ \E c \in EditContents :
         /\ files = [p \in {<<"f">>} |-> c] /\ dirs = {}
         /\ pre = [files |-> [p \in {<<"f">>} |-> c], dirs |-> {}]
    /\ Idle

\* One edit_file call on each file.
NextEdit ==
    \/ /\ ncalls = 0
       /\ \E e \in AllEdits : call_edit_file(<<"f">>, e)
    \/ edit_file_probe
    \/ edit_file_backup
    \/ edit_file_sed
    \/ edit_file_cleanup
    \/ Finish

SpecEdit == InitEdit /\ [][NextEdit]_vars

(* ----------------- metadata of many paths (SpecMeta) ------------------ *)

\* A list of n paths in which both paths occur.
LongList(n) == [k \in 1..n |-> IF k % 3 = 0 THEN <<"d", "/", NO_MATCHES>> ELSE <<"f">>]

\* Every short list of paths, and the long ones up to MaxMetaPaths.
MetaPathLists ==
    SeqsUpTo(Paths, MaxPaths) \cup {LongList(n) : n \in (MaxPaths + 1)..MaxMetaPaths}

InitMeta ==
    /\ \E S \in SUBSET {<<"f">>} : \E f \in [S -> SomeContents] :
         /\ files = f /\ dirs = {}
         /\ pre = [files |-> f, dirs |-> {}]
    /\ Idle

\* One get_metadata call.
NextMeta ==
    \/ /\ ncalls = 0
       /\ \E ps \in MetaPathLists : call_get_metadata(ps)
    \/ get_metadata_stat
    \/ Finish

SpecMeta == InitMeta /\ [][NextMeta]_vars

(* ------------- paths with shell characters (SpecQuote) ---------------- *)

\* The characters of these paths: a letter, the single quote, and the
\* shell's command separator.
QuoteChars == {"f", "'", ";"}

QuotePaths == Paths \cup (SeqsUpTo(QuoteChars, MaxPathLen) \ {<<>>})

\* The file f is there or not; its directory d is not.
InitQuote ==
    /\ \E S \in SUBSET {<<"f">>} : \E f \in [S -> SomeContents] :
         /\ files = f /\ dirs = {}
         /\ pre = [files |-> f, dirs |-> {}]
    /\ Idle

\* One call of read, write, edit or metadata on any of these paths.
NextQuote ==
    \/ /\ ncalls = 0
       /\ \E p \in QuotePaths :
            \/ \E limit \in {None, 1} : call_read_file(p, limit, limit)
            \/ \E c \in SomeContents : call_write_file(p, c)
            \/ \E e \in SomeEdits : call_edit_file(p, e)
            \/ call_get_metadata(<<p>>)
    \/ Steps

SpecQuote == InitQuote /\ [][NextQuote]_vars

(* ---------- edits with sed's special characters (SpecEscape) ---------- *)

\* The characters escape_for_sed escapes.
Special == {"\\", "/", ".", "*", "[", "]", "^", "$", "&"}

EscChars == Special \cup {"x"}

\* The edits: old_string of these characters, new_string empty or one of
\* them.
EscEdits ==
    {Edit(o, n, a) : o \in SeqsUpTo(EscChars, MaxEscLen) \ {<<>>},
                     n \in {<<>>} \cup {<<c>> : c \in EscChars}, a \in BOOLEAN}

\* The files: each character twice on a line, and a file of two lines.
EscContents == {<<c, "x", c>> : c \in EscChars} \cup {<<"x", NL, "x", "x", NL>>}

InitEscape ==
    /\ \E c \in EscContents :
         /\ files = [p \in {<<"f">>} |-> c] /\ dirs = {}
         /\ pre = [files |-> [p \in {<<"f">>} |-> c], dirs |-> {}]
    /\ Idle

\* One edit_file call on each file.
NextEscape ==
    \/ /\ ncalls = 0
       /\ \E e \in EscEdits : call_edit_file(<<"f">>, e)
    \/ edit_file_probe
    \/ edit_file_backup
    \/ edit_file_sed
    \/ edit_file_cleanup
    \/ Finish

SpecEscape == InitEscape /\ [][NextEscape]_vars

(* ------------------------------ claims -------------------------------- *)

Done(op) == pc = "done" /\ call.op = op

\* The commands sent so far that ended with a nonzero exit code.
Failed == {n \in 1..Len(sent) : ~sent[n].ok}

SentKinds == [n \in 1..Len(sent) |-> sent[n].kind]

NotFoundResult(file_path) == [msg |-> <<"File not found: ">> \o file_path, err |-> TRUE]

\* The text s occurs in the text t.
Occurs(t, s) == \E k \in 1..Len(t) : k + Len(s) - 1 <= Len(t) /\ SubSeq(t, k, k + Len(s) - 1) = s

\* C1: edit_file on a path that does not exist returns ("File not found:
\* <path>", True); the probe copy is the only command it sends, and the
\* files and directories are those of before the call.
C1_EditMissingNoMutation ==
    (Done("edit_file") /\ ~Exists(pre.files, call.path)) =>
        /\ ret = NotFoundResult(call.path)
        /\ SentKinds = <<"cp_probe">>
        /\ files = pre.files /\ dirs = pre.dirs

\* A state of C1: edit_file has returned for a missing path whose .bak
\* existed before the call.
C1_Witness ==
    /\ Done("edit_file") /\ ~Exists(pre.files, call.path)
    /\ Exists(files, Bak(call.path))

\* C2: multi_edit_file stops at the first fatal edit k and returns
\* ("Error on edit k: <the edit's message>", True), k counted from 1; no
\* command of a later edit is sent.
C2_StopsAtFirstFatal ==
    Done("multi_edit_file") =>
        \A k \in 1..Len(erets) :
            (Fatal(erets[k]) /\ \A j \in 1..(k - 1) : ~Fatal(erets[j])) =>
                /\ ret = [msg |-> <<"Error on edit ">> \o Digits(k) \o <<": ">>
                                  \o erets[k].msg,
                          err |-> TRUE]
                /\ Len(erets) = k
                /\ \A n \in 1..Len(sent) : sent[n].edit <= k

\* A state of C2: the first of two edits was fatal.
C2_Witness ==
    /\ Done("multi_edit_file") /\ Len(call.edits) = 2
    /\ Len(erets) = 1 /\ Fatal(erets[1])

\* The edit of the k-th edit_file call made during this call.
EditAt(k) == IF call.op = "edit_file" THEN call.edit ELSE call.edits[k]

\* The k-th edit's substitution command was sent and exited 0.
SedOk(k) ==
    \E n \in 1..Len(sent) : sent[n].kind = "sed" /\ sent[n].edit = k /\ sent[n].ok

\* The target file as the k-th edit_file call left it.
After(k) == IF k < Len(before) THEN before[k + 1] ELSE Found(files, call.path)

\* The k-th edit found nothing to replace, and its substitution exited 0.
NoMatchEdit(k) ==
    /\ SedOk(k)
    /\ before[k].there /\ ~Occurs(before[k].content, EditAt(k).old)

\* C3: an edit whose substitution exits 0 with nothing matched is a
\* success: edit_file returns isError=False (and leaves the file as it
\* was); in multi_edit_file it gets its result line and the next edit of
\* the list, if any, is started.
C3_NoMatchIsSuccess ==
    (pc = "done" /\ call.op \in {"edit_file", "multi_edit_file"}) =>
        \A k \in 1..Len(erets) :
            NoMatchEdit(k) =>
                /\ ~erets[k].err
                /\ After(k) = before[k]
                /\ call.op = "multi_edit_file" =>
                     /\ Len(results) >= k
                     /\ results[k] = <<"Edit ">> \o Digits(k) \o <<": ">> \o erets[k].msg
                     /\ k < Len(call.edits) =>
                          \E n \in 1..Len(sent) :
                              sent[n].kind = "cp_probe" /\ sent[n].edit = k + 1

\* A state of C3: the first of two edits matched nothing, and the second
\* edit ran its substitution.
C3_Witness ==
    /\ Done("multi_edit_file") /\ Len(call.edits) = 2
    /\ NoMatchEdit(1) /\ SedOk(2) /\ ~ret.err

\* The block get_metadata made last is the "Not found" one of its path.
LastBlockNotFound ==
    results[Len(results)] = Limited(call.paths)[Len(results)] \o <<": Not found">>

\* C4: whatever the operation and the command, an output that holds the
\* not-found marker makes the operation report not found, whatever the
\* exit code; a write or an edit whose output holds the marker is not
\* reported as success.
C4_MarkerIsAlwaysNotFound ==
    pc = "done" =>
        /\ (call.op = "read_file" /\ Contains(output, NSF)) =>
              ret = NotFoundResult(call.path)
        /\ (call.op \in {"write_file", "edit_file"} /\ Contains(output, NSF)) => ret.err
        /\ (call.op = "get_metadata" /\ results # <<>> /\ Contains(output, NOT_FOUND)) =>
              LastBlockNotFound

\* C4 as amended: read_file reports not found for an output that holds a
\* marker whatever the exit code; edit_file goes past its probe copy only
\* when the probe's output holds no marker; get_metadata makes the "Not
\* found" block for an output that holds "not_found"; write_file and
\* edit_file's substitution are classified by the exit code alone.
C4_MarkerWhereLookedFor ==
    /\ (Done("read_file") /\ (Contains(output, NSF) \/ Contains(output, CANNOT_OPEN))) =>
          ret = NotFoundResult(call.path)
    /\ pc = "backup" => (~Contains(output, NSF) /\ code = 0)
    /\ (pc = "done" /\ call.op \in {"edit_file", "multi_edit_file"}) =>
          \A k \in 1..Len(erets) :
              (~\E n \in 1..Len(sent) : sent[n].kind = "cp" /\ sent[n].edit = k) =>
                  erets[k] = NotFoundResult(call.path)
    /\ (call.op = "get_metadata" /\ results # <<>> /\ Contains(output, NOT_FOUND)) =>
          LastBlockNotFound
    /\ Done("write_file") => (ret.err <=> code # 0)
    /\ (Done("edit_file") /\ Len(sent) = 4) => (ret.err <=> code # 0)

\* A state of C4: read_file's command exited 0 with the marker in its
\* output, and read_file reported not found.
C4_Witness ==
    /\ Done("read_file") /\ code = 0 /\ Contains(output, NSF)
    /\ ret = NotFoundResult(call.path)

\* C6: no public operation returns isError=False after one of its
\* commands ended with a nonzero exit code.
C6_EveryFailurePropagates == (pc = "done" /\ Failed # {}) => ret.err

\* The k-th edit's probe copy or substitution ended with a nonzero exit code.
CheckedFailure(k) ==
    \E n \in Failed : sent[n].edit = k /\ sent[n].kind \in {"cp_probe", "sed"}

\* C6 as amended: a nonzero exit code is propagated as an error when it is
\* that of read_file's command with a non-empty output, of write_file's
\* write command, or of edit_file's probe copy or substitution;
\* multi_edit_file propagates such an edit's error unless its message
\* holds "No matches found".
C6_CheckedFailurePropagates ==
    pc = "done" =>
        /\ (call.op = "read_file" /\ code # 0 /\ output # <<>>) => ret.err
        /\ (call.op = "write_file" /\ \E n \in Failed : sent[n].kind = "write") => ret.err
        /\ (call.op = "edit_file" /\ CheckedFailure(1)) => ret.err
        /\ call.op = "multi_edit_file" =>
              \A k \in 1..Len(erets) :
                  CheckedFailure(k) =>
                      /\ erets[k].err
                      /\ ~Contains(erets[k].msg, NO_MATCHES) => ret.err

\* A state of C6: a substitution timed out in the second edit of a batch,
\* and multi_edit_file returned an error.
C6_Witness ==
    /\ Done("multi_edit_file") /\ Len(erets) = 2
    /\ \E n \in Failed : sent[n].edit = 2 /\ sent[n].kind = "sed"
    /\ ret.err

\* C7: read_file sends exactly one command, a reading one, and leaves the
\* files and directories as they were, for every offset and limit and
\* every outcome.
C7_ReadNoSideEffects ==
    Done("read_file") =>
        /\ Len(sent) = 1
        /\ sent[1].kind \in {"nl", "head_nl", "tail_head_nl"}
        /\ files = pre.files /\ dirs = pre.dirs

\* A state of C7: read_file was given an offset and no limit, the file
\* has a backup beside it, and the command timed out.
C7_Witness ==
    /\ Done("read_file") /\ call.offset # None /\ call.limit = None
    /\ Exists(files, Bak(call.path)) /\ Failed # {}

\* The read command ran to its end on an existing file: exit code 0, and
\* its output is what the pipeline prints for that file.
HonestRead ==
    /\ Done("read_file") /\ Exists(files, call.path)
    /\ code = 0
    /\ output = Exec(ReadCmd(call.path, call.offset, call.limit), files, dirs).out

\* C5: read_file never reports an error for a read command that
\* legitimately succeeds: exit code 0 and non-empty output that is the
\* content of an existing file give (output, False), whatever the content
\* holds, "No such file or directory" and "cannot open" included.
C5_LegitimateReadIsNotError ==
    (HonestRead /\ output # <<>>) => ret = [msg |-> output, err |-> FALSE]

\* The same for the files in which neither marker text occurs.
ReadOfMarkerFreeFileIsNotError ==
    (HonestRead /\ output # <<>>
        /\ ~Contains(files[call.path], NSF)
        /\ ~Contains(files[call.path], CANNOT_OPEN)) =>
        ret = [msg |-> output, err |-> FALSE]

\* C8: a successful write_file(path, C) followed by read_file(path)
\* without offset and limit returns isError=False and the lines of C, each
\* behind its line number, and the file holds exactly C, for every content
\* C (quotes, backticks, $, backslashes and newlines included) and path.
C8_RoundTrip ==
    (HonestRead /\ prev.call.op = "write_file" /\ ~prev.ret.err
        /\ prev.call.path = call.path) =>
        /\ files[call.path] = prev.call.content
        /\ ret = [msg |-> Nl(Lines(prev.call.content), 1), err |-> FALSE]

\* The same for the contents in which neither marker text occurs.
RoundTripOfMarkerFreeContent ==
    (HonestRead /\ prev.call.op = "write_file" /\ ~prev.ret.err
        /\ prev.call.path = call.path
        /\ ~Contains(prev.call.content, NSF)
        /\ ~Contains(prev.call.content, CANNOT_OPEN)) =>
        /\ files[call.path] = prev.call.content
        /\ ret = [msg |-> Nl(Lines(prev.call.content), 1), err |-> FALSE]

\* The text t with its first n occurrences of old, found from the start and
\* not overlapping, replaced literally by new.
RECURSIVE StrReplace(_, _, _, _)
StrReplace(t, old, new, n) ==
    IF n = 0 \/ Len(t) < Len(old) THEN t
    ELSE IF SubSeq(t, 1, Len(old)) = old
         THEN new \o StrReplace(SubSeq(t, Len(old) + 1, Len(t)), old, new, n - 1)
         ELSE <<Head(t)>> \o StrReplace(Tail(t), old, new, n)

\* The text s occurs in t at position k.
OccursAt(t, s, k) == k + Len(s) - 1 <= Len(t) /\ SubSeq(t, k, k + Len(s) - 1) = s

\* The text s occurs in t twice, the occurrences not overlapping.
Twice(t, s) ==
    \E k1, k2 \in 1..Len(t) :
        k1 + Len(s) <= k2 /\ OccursAt(t, s, k1) /\ OccursAt(t, s, k2)

\* C9: on a file that holds old_string (a text within one line, free of
\* single quotes) twice, on one line or on two, an edit_file whose
\* substitution exits 0 returns isError=False and leaves in
\* the file, with replace_all=False, the old content with only the first
\* occurrence from the start of the file replaced, and with
\* replace_all=True the old content with every occurrence replaced.
C9_FirstOrEveryOccurrence ==
    (Done("edit_file") /\ SedOk(1) /\ Twice(before[1].content, call.edit.old)) =>
        /\ ~ret.err
        /\ Exists(files, call.path)
        /\ files[call.path] =
             StrReplace(before[1].content, call.edit.old, call.edit.new,
                        IF call.edit.all THEN Len(before[1].content) ELSE 1)

\* A state of C9: replace_all=False, old_string on two different lines, and
\* the edit changed the file and left an occurrence in it.
C9_Witness ==
    /\ Done("edit_file") /\ SedOk(1) /\ ~call.edit.all
    /\ \E k \in 1..Len(before[1].content) :
         /\ before[1].content[k] = NL
         /\ Occurs(SubSeq(before[1].content, 1, k - 1), call.edit.old)
         /\ Occurs(SubSeq(before[1].content, k + 1, Len(before[1].content)),
                   call.edit.old)
    /\ files[call.path] # before[1].content
    /\ Occurs(files[call.path], call.edit.old)

\* The lines of ls with 1-based index in [offset, offset + limit).
Page(ls, offset, limit) ==
    LET last == IF offset + limit - 1 < Len(ls) THEN offset + limit - 1 ELSE Len(ls)
    IN  [k \in 1..(IF last < offset THEN 0 ELSE last - offset + 1) |->
            ls[offset + k - 1]]

\* What the claim expects of a read: the page's lines, numbered from its
\* first index.
ExpectedRead(ls, offset, limit) ==
    IF offset # None /\ limit # None THEN Nl(Page(ls, offset, limit), offset)
    ELSE IF limit # None THEN Nl(Page(ls, 1, limit), 1)
    ELSE Nl(ls, 1)

\* C10: a read whose command succeeds returns, with offset and limit, the
\* existing lines with 1-based index in [offset, offset+limit) numbered
\* from offset; with limit only, the first limit lines numbered from 1;
\* with neither, every line numbered from 1.
C10_Pagination ==
    (HonestRead /\ (call.offset = None \/ call.limit # None)) =>
        ret = [msg |-> ExpectedRead(Lines(files[call.path]), call.offset, call.limit),
               err |-> FALSE]

\* The same for the files in which neither marker text occurs.
PaginationOfMarkerFreeFile ==
    (HonestRead /\ (call.offset = None \/ call.limit # None)
        /\ ~Contains(files[call.path], NSF)
        /\ ~Contains(files[call.path], CANNOT_OPEN)) =>
        ret = [msg |-> ExpectedRead(Lines(files[call.path]), call.offset, call.limit),
               err |-> FALSE]

\* min(n, 10)
Processed(n) == IF n < 10 THEN n ELSE 10

\* The text t begins with the text s.
StartsWith(t, s) == Len(s) <= Len(t) /\ SubSeq(t, 1, Len(s)) = s

\* C11: get_metadata on n paths sends only stat commands, the k-th one for
\* the k-th path, never more than min(n, 10) of them; when it has returned
\* it has sent exactly min(n, 10), its report is the min(n, 10) blocks of
\* these paths in input order joined by blank lines, and the error flag is
\* False, whatever the executor answered.
C11_MetadataBounded ==
    call.op = "get_metadata" =>
        LET m == Processed(Len(call.paths))
        IN  /\ Len(sent) <= m /\ Len(results) = Len(sent)
            /\ \A k \in 1..Len(sent) :
                 /\ sent[k].kind = "stat" /\ sent[k].path = call.paths[k]
                 /\ StartsWith(results[k], call.paths[k])
            /\ pc = "done" =>
                 /\ Len(sent) = m
                 /\ ret = [msg |-> Join(results, <<NL, NL>>), err |-> FALSE]

\* A state of C11: get_metadata has returned for a list of more than 10
\* paths, and one of its commands had failed.
C11_Witness ==
    /\ Done("get_metadata") /\ Len(call.paths) > 10
    /\ Len(sent) = 10 /\ Failed # {}

\* The positions of t at which a word begins: a token that is no
\* whitespace, at the start or behind whitespace.
WordStarts(t) ==
    {k \in 1..Len(t) : ~IsSpace(t[k]) /\ (k = 1 \/ IsSpace(t[k - 1]))}

\* The position at which the n-th word of t begins (n at most their number).
WordStart(t, n) ==
    CHOOSE k \in WordStarts(t) : Cardinality({j \in WordStarts(t) : j <= k}) = n

\* The n-th word of t.
Word(t, n) ==
    LET a == WordStart(t, n)
        ends == {k \in a..Len(t) : k = Len(t) \/ IsSpace(t[k + 1])}
        b == CHOOSE k \in ends : \A j \in ends : k <= j
    IN  SubSeq(t, a, b)

\* What is left of t from its n-th word on, without trailing whitespace.
Remainder(t, n) ==
    LET last == CHOOSE k \in 1..Len(t) : ~IsSpace(t[k]) /\ \A j \in (k + 1)..Len(t) : IsSpace(t[j])
    IN  SubSeq(t, WordStart(t, n), last)

\* The block the claim gives a path whose command printed out.
ExpectedBlock(file_path, out) ==
    LET t == SpellOut(out)
    IN  IF Contains(out, NOT_FOUND) THEN file_path \o <<": Not found">>
        ELSE IF Cardinality(WordStarts(t)) >= 5
        THEN file_path \o <<":", NL, "  Size: ">> \o Word(t, 1)
             \o <<" bytes", NL, "  Type: ">> \o Remainder(t, 5)
             \o <<NL, "  Owner: ">> \o Word(t, 3)
             \o <<NL, "  Permissions: ">> \o Word(t, 4)
        ELSE file_path \o <<": Unable to get metadata">>

\* C12: every step of get_metadata adds exactly one block, the one of the
\* path it ran the command for, made from that command's output alone
\* ("Not found" if it holds not_found, the Size/Type/Owner/Permissions
\* block if it has 5 or more whitespace-delimited fields, the fifth being
\* the remainder, "Unable to get metadata" otherwise), keeps the earlier
\* blocks, and goes on to the next path if there is one, whatever the
\* command's exit code.
C12_PerPathBlocks ==
    [][(call.op = "get_metadata" /\ pc = "stat") =>
        LET ps == SubSeq(call.paths, 1, Processed(Len(call.paths)))
        IN  /\ results' = Append(results, ExpectedBlock(ps[i + 1], output'))
            /\ IF i + 1 < Len(ps) THEN pc' = "stat" /\ i' = i + 1
               ELSE pc' = "done" /\ ret'.msg = Join(results', <<NL, NL>>)]_vars

\* A state of C12: the first path's command failed and gave fewer than 5
\* fields, the second path's gave a structured block whose type is of two
\* words.
C12_Witness ==
    /\ Done("get_metadata") /\ Len(results) = 2
    /\ ~sent[1].ok /\ results[1] = call.paths[1] \o <<": Unable to get metadata">>
    /\ \E k \in 1..(Len(results[2]) - 3) :
         SubSeq(results[2], k, k + 3) = <<"  Type: ", "ASCII", " ", "text">>

\* C13: the shell reads the text of every command sent as the command
\* meant, the path (with ".bak" where the command names the backup) being
\* one quoted word of it, for every path, those with a single quote
\* included: no path ends the quoting or adds shell text.
C13_PathStaysQuoted ==
    \A n \in 1..Len(sent) : ReadAsMeant(sent[n].cmd)

\* The same for the paths without a single quote.
QuoteFreePathStaysQuoted ==
    \A n \in 1..Len(sent) :
        ~Contains(sent[n].path, "'") => ReadAsMeant(sent[n].cmd)

\* Each character of s escaped on its own: a backslash before each of
\* \ / . * [ ] ^ $ &, every other character as it is.
PerChar(s) ==
    Concat([k \in 1..Len(s) |-> IF s[k] \in Special THEN <<"\\", s[k]>> ELSE <<s[k]>>])

\* The script with both strings escaped character by character.
PerCharScript(e) ==
    IF e.all
    THEN <<"s", "/">> \o PerChar(e.old) \o <<"/">> \o PerChar(e.new) \o <<"/", "g">>
    ELSE <<"0", ",", "/">> \o PerChar(e.old) \o <<"/", "s", "/", "/">>
         \o PerChar(e.new) \o <<"/">>

\* C14: escape_for_sed gives what escaping each character on its own
\* gives (one backslash before each of \ / . * [ ] ^ $ &, nothing else
\* changed, no added backslash escaped again); the substitution command
\* carries old_string and new_string both escaped so; and an edit whose
\* substitution exits 0 has replaced old_string, as the literal text it is,
\* by new_string, as the literal text it is.
C14_EscapedLiterally ==
    call.op = "edit_file" =>
        /\ escape_for_sed(call.edit.old) = PerChar(call.edit.old)
        /\ escape_for_sed(call.edit.new) = PerChar(call.edit.new)
        /\ \A n \in 1..Len(sent) :
             sent[n].kind = "sed" => sent[n].cmd.script = PerCharScript(call.edit)
        /\ (pc = "done" /\ SedOk(1)) =>
             /\ Exists(files, call.path)
             /\ files[call.path] =
                  StrReplace(before[1].content, call.edit.old, call.edit.new,
                             IF call.edit.all THEN Len(before[1].content) ELSE 1)

\* A state of C14: every "*" of the file was replaced by "&".
C14_Witness ==
    /\ Done("edit_file") /\ SedOk(1)
    /\ call.edit = Edit(<<"*">>, <<"&">>, TRUE)
    /\ before[1].content = <<"*", "x", "*">>
    /\ files[call.path] = <<"&", "x", "&">>

\* The commands of one edit_file call, in their order.
EditCommands == <<"cp_probe", "cp", "sed", "rm">>

\* C15: an edit_file call sends its commands one at a time, each after the
\* answer to the one before; after a probe that succeeded it has sent,
\* when it returns, exactly the probe copy, the backup copy, the
\* substitution and the removal of the backup, in this order, whatever the
\* substitution's exit code, and its error flag is True exactly when that
\* exit code is not 0.
C15_FourCommandsInOrder ==
    call.op = "edit_file" =>
        /\ SentKinds = SubSeq(EditCommands, 1, Len(sent))
        /\ pc = "probe" => Len(sent) = 0
        /\ pc = "backup" => Len(sent) = 1 /\ ~ProbeFailed(output, code)
        /\ pc = "sed" => Len(sent) = 2
        /\ pc = "cleanup" => Len(sent) = 3
        /\ pc = "done" =>
             \/ Len(sent) = 1 /\ ProbeFailed(output, code)
             \/ Len(sent) = 4 /\ (ret.err <=> ~sent[3].ok)

\* A state of C15: the substitution had a nonzero exit code, the backup was
\* removed after it, and the call returned an error.
C15_Witness ==
    /\ Done("edit_file") /\ Len(sent) = 4
    /\ ~sent[3].ok /\ sent[4].kind = "rm" /\ sent[4].ok /\ ret.err

\* C16: after a substitution with a nonzero exit code, edit_file's one
\* remaining step sends the removal of <path>.bak and nothing that copies
\* the backup over the file; the target file stays as the substitution
\* left it; a removal that exits 0 leaves no <path>.bak; and the call
\* returns ("Error editing file: <output>", True).
C16_NoRestoreOnFailure ==
    [][(call.op = "edit_file" /\ pc = "cleanup" /\ code # 0) =>
        /\ Len(sent') = Len(sent) + 1
        /\ SubSeq(sent', 1, Len(sent)) = sent
        /\ sent'[Len(sent')].kind = "rm"
        /\ sent'[Len(sent')].path = Bak(call.path)
        /\ Found(files', call.path) = Found(files, call.path)
        /\ sent'[Len(sent')].ok => ~Exists(files', Bak(call.path))
        /\ pc' = "done"
        /\ ret' = [msg |-> <<"Error editing file: ">> \o output, err |-> TRUE]]_vars

\* A state of C16: the substitution changed the file and was then ended with
\* a nonzero exit code; the call has returned the error, the backup is
\* gone and the file is the changed one.
C16_Witness ==
    /\ Done("edit_file") /\ Len(sent) = 4
    /\ ~sent[3].ok /\ sent[4].ok /\ ret.err
    /\ ~Exists(files, Bak(call.path))
    /\ Exists(files, call.path) /\ files[call.path] # before[1].content

\* The commands sent for the k-th edit, in the order sent.
CommandsOf(k) == SelectSeq(sent, LAMBDA e : e.edit = k)

\* The k-th edit's commands so far are the first ones of an edit_file call,
\* each on the batch's path, the copies going from the file to its backup.
PrefixOfEdit(k) ==
    LET cs == CommandsOf(k) IN
    /\ Len(cs) <= Len(EditCommands)
    /\ \A n \in 1..Len(cs) :
         /\ cs[n].kind = EditCommands[n]
         /\ cs[n].cmd = CASE n = 1 -> ProbeCmd(call.path)
                          [] n = 2 -> BackupCmd(call.path)
                          [] n = 3 -> SedCmd(call.path, EditAt(k).old, EditAt(k).new,
                                             EditAt(k).all)
                          [] OTHER -> CleanupCmd(call.path)

\* The file as the k-th edit should leave it, the substitution having exited 0.
Edited(k) ==
    [there |-> TRUE,
     content |-> StrReplace(before[k].content, EditAt(k).old, EditAt(k).new,
                            IF EditAt(k).all THEN Len(before[k].content) ELSE 1)]

\* C17: multi_edit_file sends the edits' commands in list order, each edit's
\* own commands in edit_file's order, and nothing but these (no command that
\* copies a backup over the file); an edit is started only after the one
\* before it has returned, its removal of the backup included; the k-th edit
\* finds the file as the (k-1)-th left it, which after a substitution with
\* exit code 0 is the content before that edit with the edit applied, and
\* after a failed probe is the content before that edit; until the
\* substitution of the edit under way is sent, and when the batch has
\* returned, the file is as the edits done so far left it; and a batch that
\* returns isError=False returns the lines "Edit k: <message>", k = 1..n,
\* joined by newlines.
C17_InOrderNoRollback ==
    call.op = "multi_edit_file" =>
        /\ \A n \in 1..(Len(sent) - 1) : sent[n].edit <= sent[n + 1].edit
        /\ \A n \in 1..Len(sent) : sent[n].edit \in 1..Len(before)
        /\ Len(before) <= Len(erets) + 1
        /\ Len(before) <= Len(call.edits)
        /\ \A k \in 1..Len(before) : PrefixOfEdit(k)
        /\ \A k \in 1..Len(erets) :
             /\ Len(CommandsOf(k)) \in {1, Len(EditCommands)}
             /\ SedOk(k) => After(k) = Edited(k)
             /\ Len(CommandsOf(k)) = 1 => After(k) = before[k]
        /\ (Len(before) = Len(erets) + 1 /\ pc \in {"backup", "sed"}) =>
               Found(files, call.path) = before[Len(before)]
        /\ (pc = "done" /\ ~ret.err) =>
             /\ Len(erets) = Len(call.edits)
             /\ ret.msg = Join([k \in 1..Len(erets) |->
                                  <<"Edit ">> \o Digits(k) \o <<": ">> \o erets[k].msg],
                               <<NL>>)

\* A state of C17: a batch of two edits has returned isError=False, both
\* substitutions exited 0, the first changed the file and the second changed
\* what the first had left.
C17_Witness ==
    /\ Done("multi_edit_file") /\ ~ret.err
    /\ Len(call.edits) = 2 /\ SedOk(1) /\ SedOk(2)
    /\ before[2].content # before[1].content
    /\ files[call.path] # before[2].content
    /\ files[call.path] = Edited(2).content

\* A state of C17: the batch was ended by its second edit, and the file
\* holds what the first edit made of it.
C17_AbortKeepsPrefix ==
    /\ Done("multi_edit_file") /\ ret.err
    /\ Len(erets) = 2 /\ SedOk(1) /\ ~SedOk(2)
    /\ before[2].content # before[1].content
    /\ Found(files, call.path) = before[2]

(* ------------- two overlapping edit_file calls (SpecOverlap) ---------- *)

\* The frame of the running call: its position and its local variables.
Running ==
    [pc |-> pc, call |-> call, output |-> output, code |-> code, ret |-> ret,
     erets |-> erets, before |-> before, sent |-> sent, pre |-> pre]

\* The frame f becomes the running call.
Resume(f) ==
    /\ pc' = f.pc /\ call' = f.call /\ output' = f.output /\ code' = f.code
    /\ ret' = f.ret /\ erets' = f.erets /\ before' = f.before /\ sent' = f.sent
    /\ pre' = f.pre

\* While the running edit_file call waits in _run_command (line 20), a
\* second edit_file call on the same path is started.
Overlap(e) ==
    /\ call.op = "edit_file" /\ pc \in {"probe", "backup", "sed", "cleanup"}
    /\ waiting = <<>>
    /\ ncalls' = ncalls + 1
    /\ waiting' = <<Running>>
    /\ Resume([pc |-> "probe", call |-> [op |-> "edit_file", path |-> call.path, edit |-> e],
               output |-> <<>>, code |-> 0, ret |-> NoRet, erets |-> <<>>,
               before |-> <<>>, sent |-> <<>>,
               pre |-> [files |-> files, dirs |-> dirs]])
    /\ UNCHANGED <<files, dirs, i, results, prev>>

\* At an await (line 20) or at its return the running call yields, and the
\* suspended call goes on.
Switch ==
    /\ waiting # <<>> /\ waiting[1].pc # "done"
    /\ waiting' = <<Running>>
    /\ Resume(waiting[1])
    /\ UNCHANGED <<files, dirs, i, results, prev, ncalls>>

InitOverlap ==
    /\ \E c \in SomeContents :
         /\ files = [p \in {<<"f">>} |-> c] /\ dirs = {}
         /\ pre = [files |-> [p \in {<<"f">>} |-> c], dirs |-> {}]
    /\ Idle

\* Two edit_file calls on one file, their commands interleaved.
NextOverlap ==
    \/ /\ ncalls = 0
       /\ \E e \in SomeEdits : call_edit_file(<<"f">>, e)
    \/ \E e \in SomeEdits : Overlap(e)
    \/ Switch
    \/ edit_file_probe
    \/ edit_file_backup
    \/ edit_file_sed
    \/ edit_file_cleanup

SpecOverlap == InitOverlap /\ [][NextOverlap]_vars

\* The two calls: the running one and the suspended one.
Frames == <<Running>> \o waiting

\* The call of frame f has sent a command of the given kind.
HasSent(f, kind) == \E n \in 1..Len(f.sent) : f.sent[n].kind = kind

\* The call of frame f made its backup copy with exit code 0, and when its
\* substitution ran there was no backup.
SubstitutedBare(f) ==
    /\ Len(f.sent) >= 3 /\ f.sent[2].ok /\ f.sent[3].kind = "sed"
    /\ ~f.sent[3].bak.there

\* The call of frame f made its backup copy with exit code 0, and the
\* backup then held another content than the file had when the call began.
BackupOfOther(f) ==
    /\ Len(f.sent) >= 2 /\ f.sent[2].ok
    /\ f.sent[2].bak.there
    /\ f.sent[2].bak.content # f.before[1].content

\* The file as the edit of frame f's call makes it.
EditedBy(f) ==
    StrReplace(f.before[1].content, f.call.edit.old, f.call.edit.new,
               IF f.call.edit.all THEN Len(f.before[1].content) ELSE 1)

\* C18: two edit_file calls on one path name the same backup file,
\* <path>.bak, in their copies and removals; so a call whose backup copy
\* exited 0 can find no backup when it substitutes, which happens only after
\* the other call has sent its removal, and its backup can hold a content
\* that is not the one the call began with, which happens only after the
\* other call has sent its substitution. With one call neither happens.
C18_SharedBackup ==
    \A a \in 1..Len(Frames) :
        LET f == Frames[a]
            others == {b \in 1..Len(Frames) : b # a}
        IN  f.call.op = "edit_file" =>
            /\ \A n \in 1..Len(f.sent) :
                 /\ f.sent[n].kind \in {"cp_probe", "cp"} =>
                        f.sent[n].cmd.to = f.call.path \o <<".bak">>
                 /\ f.sent[n].kind = "rm" =>
                        f.sent[n].cmd.path = f.call.path \o <<".bak">>
            /\ \A b \in others : Frames[b].call.path = f.call.path
            /\ SubstitutedBare(f) => \E b \in others : HasSent(Frames[b], "rm")
            /\ BackupOfOther(f) => \E b \in others : HasSent(Frames[b], "sed")

\* A state of C18: the running call's backup copy found the file already
\* changed by the other call's substitution, and its own substitution then
\* ran after the other call had removed the backup.
C18_Witness ==
    /\ Len(waiting) = 1 /\ call.op = "edit_file"
    /\ BackupOfOther(Running) /\ SubstitutedBare(Running)
    /\ waiting[1].pc = "done" /\ ~waiting[1].ret.err
    /\ sent[2].bak.content = EditedBy(waiting[1])

\* C19: with one caller, when an edit_file call on a path that had no
\* <path>.bak has returned (with success, with a substitution error or with
\* a not-found error), whatever the executor answered to its commands, there
\* is no <path>.bak.
C19_NoBackupLeftBehind ==
    (Done("edit_file") /\ ~Exists(pre.files, Bak(call.path))) =>
        ~Exists(files, Bak(call.path))

\* The same for the calls that got as far as the removal (line 109) and
\* whose removal exited 0.
NoBackupLeftAfterRemoval ==
    (Done("edit_file") /\ Len(sent) = 4 /\ sent[4].ok) =>
        ~Exists(files, Bak(call.path))

\* A state C19 excludes: the probe copy wrote <path>.bak, its answer made
\* edit_file return "File not found" (line 77), and the backup is there.
BackupLeftByProbe ==
    /\ Done("edit_file") /\ ~Exists(pre.files, Bak(call.path))
    /\ SentKinds = <<"cp_probe">> /\ ret = NotFoundResult(call.path)
    /\ Exists(files, call.path)
    /\ Exists(files, Bak(call.path)) /\ files[Bak(call.path)] = files[call.path]

\* C20: when multi_edit_file has returned isError=False, every edit_file
\* call of the batch returned isError=False, and there were as many of them
\* as edits in the list.
C20_SuccessMeansEveryEditSucceeded ==
    (Done("multi_edit_file") /\ ~ret.err) =>
        /\ Len(erets) = Len(call.edits)
        /\ \A k \in 1..Len(erets) : ~erets[k].err

\* The same for the batches on a path that does not hold the text
\* "No matches found".
SuccessOnPlainPathMeansEveryEditSucceeded ==
    (Done("multi_edit_file") /\ ~ret.err /\ ~Contains(call.path, NO_MATCHES)) =>
        /\ Len(erets) = Len(call.edits)
        /\ \A k \in 1..Len(erets) : ~erets[k].err

\* A state C20 excludes: the first edit returned an error, it got an
\* ordinary result line, a later edit was started, and the batch returned
\* isError=False.
ErrorRecordedAsResult ==
    /\ Done("multi_edit_file") /\ ~ret.err
    /\ Len(erets) = 2 /\ erets[1].err
    /\ \E n \in 1..Len(sent) : sent[n].edit = 2

====
